---- MODULE Spec2Model ----
(***************************************************************************)
(* Contact manager backend: the five request handlers of                   *)
(* app/api/endpoints/contacts.py over one table of Contact rows, with the  *)
(* request validation of app/schemas/contact.py.                           *)
(*                                                                         *)
(* A text is the sequence of the Unicode code points of its characters,    *)
(* so that whitespace, word characters, case folding, e-mail normalisation *)
(* and LIKE matching are computed for every character a request can        *)
(* carry.  SQL NULL / Python None is the one-element sequence Null, which  *)
(* no text equals (its only element is no code point).                     *)
(***************************************************************************)
EXTENDS Integers, Sequences, FiniteSets, TLC

VARIABLES
    store,    \* the contacts table: id -> row
    heap,     \* ids in the order an unordered SELECT scans the table
    nextId,   \* the next value of the id sequence
    sess,     \* per concurrent request: the ORM session between its awaits
    last,     \* history: the response the latest step delivered, if any
    issued,   \* history: ids handed out by creates, in order
    removed   \* history: ids whose delete has committed

vars == <<store, heap, nextId, sess, last, issued, removed>>

-----------------------------------------------------------------------------
(* Bounds of the exploration *)

MaxContacts == 2
MaxConcContacts == 2
MaxSkip == 1

(* Program constants *)

DefaultSkip == 0
DefaultLimit == 100

-----------------------------------------------------------------------------
(* Text helpers *)

Null == <<-1>>

\* The printable ASCII characters in code order: U+0020..U+005F and
\* U+0061..U+007E.  (U+0060, the backquote, has code point 96.)
CharsFrom32 ==
    <<" ", "!", "\"", "#", "$", "%", "&", "'", "(", ")", "*", "+", ",", "-",
      ".", "/", "0", "1", "2", "3", "4", "5", "6", "7", "8", "9", ":", ";",
      "<", "=", ">", "?", "@", "A", "B", "C", "D", "E", "F", "G", "H", "I",
      "J", "K", "L", "M", "N", "O", "P", "Q", "R", "S", "T", "U", "V", "W",
      "X", "Y", "Z", "[", "\\", "]", "^", "_">>
CharsFrom97 ==
    <<"a", "b", "c", "d", "e", "f", "g", "h", "i", "j", "k", "l", "m", "n",
      "o", "p", "q", "r", "s", "t", "u", "v", "w", "x", "y", "z", "{", "|",
      "}", "~">>

\* The code point of a printable ASCII character.
Code(c) ==
    IF \E i \in 1..Len(CharsFrom32) : CharsFrom32[i] = c
    THEN 31 + CHOOSE i \in 1..Len(CharsFrom32) : CharsFrom32[i] = c
    ELSE 96 + CHOOSE i \in 1..Len(CharsFrom97) : CharsFrom97[i] = c

\* The text written with the given printable ASCII characters.
RECURSIVE Text(_)
Text(s) == IF s = <<>> THEN <<>> ELSE <<Code(Head(s))>> \o Text(Tail(s))

Range(s) == {s[i] : i \in 1..Len(s)}

UpperChars == 65..90
LowerChars == 97..122
Letters == UpperChars \cup LowerChars
Digits == 48..57

LineFeed == 10
Quote == Code("\"")
Percent == Code("%")
Hyphen == Code("-")
Dot == Code(".")
LessThan == Code("<")
GreaterThan == Code(">")
At == Code("@")
Backslash == Code("\\")
Underscore == Code("_")
LowerX == Code("x")
LowerN == Code("n")

\* Case folding of the ASCII letters.
LowerChar(c) == IF c \in UpperChars THEN c + 32 ELSE c

ToLower(s) == [i \in 1..Len(s) |-> LowerChar(s[i])]

Min2(a, b) == IF a <= b THEN a ELSE b

\* Membership in a set of code point ranges <<first, last>>.
InRanges(c, ranges) == \E r \in ranges : r[1] <= c /\ c <= r[2]

-----------------------------------------------------------------------------
(* Unicode properties of the characters from U+0080 on (Unicode 14.0), as  *)
(* ranges of code points.                                                  *)

\* Matched by the regex class \w: letters, digits and the like.
WordRanges ==
    {<<170, 170>>, <<178, 179>>, <<181, 181>>, <<185, 186>>, <<188, 190>>,
     <<192, 214>>, <<216, 246>>, <<248, 705>>, <<710, 721>>, <<736, 740>>,
     <<748, 748>>, <<750, 750>>, <<880, 884>>, <<886, 887>>, <<890, 893>>,
     <<895, 895>>, <<902, 902>>, <<904, 906>>, <<908, 908>>, <<910, 929>>,
     <<931, 1013>>, <<1015, 1153>>, <<1162, 1327>>, <<1329, 1366>>,
     <<1369, 1369>>, <<1376, 1416>>, <<1488, 1514>>, <<1519, 1522>>,
     <<1568, 1610>>, <<1632, 1641>>, <<1646, 1647>>, <<1649, 1747>>,
     <<1749, 1749>>, <<1765, 1766>>, <<1774, 1788>>, <<1791, 1791>>,
     <<1808, 1808>>, <<1810, 1839>>, <<1869, 1957>>, <<1969, 1969>>,
     <<1984, 2026>>, <<2036, 2037>>, <<2042, 2042>>, <<2048, 2069>>,
     <<2074, 2074>>, <<2084, 2084>>, <<2088, 2088>>, <<2112, 2136>>,
     <<2144, 2154>>, <<2160, 2183>>, <<2185, 2190>>, <<2208, 2249>>,
     <<2308, 2361>>, <<2365, 2365>>, <<2384, 2384>>, <<2392, 2401>>,
     <<2406, 2415>>, <<2417, 2432>>, <<2437, 2444>>, <<2447, 2448>>,
     <<2451, 2472>>, <<2474, 2480>>, <<2482, 2482>>, <<2486, 2489>>,
     <<2493, 2493>>, <<2510, 2510>>, <<2524, 2525>>, <<2527, 2529>>,
     <<2534, 2545>>, <<2548, 2553>>, <<2556, 2556>>, <<2565, 2570>>,
     <<2575, 2576>>, <<2579, 2600>>, <<2602, 2608>>, <<2610, 2611>>,
     <<2613, 2614>>, <<2616, 2617>>, <<2649, 2652>>, <<2654, 2654>>,
     <<2662, 2671>>, <<2674, 2676>>, <<2693, 2701>>, <<2703, 2705>>,
     <<2707, 2728>>, <<2730, 2736>>, <<2738, 2739>>, <<2741, 2745>>,
     <<2749, 2749>>, <<2768, 2768>>, <<2784, 2785>>, <<2790, 2799>>,
     <<2809, 2809>>, <<2821, 2828>>, <<2831, 2832>>, <<2835, 2856>>,
     <<2858, 2864>>, <<2866, 2867>>, <<2869, 2873>>, <<2877, 2877>>,
     <<2908, 2909>>, <<2911, 2913>>, <<2918, 2927>>, <<2929, 2935>>,
     <<2947, 2947>>, <<2949, 2954>>, <<2958, 2960>>, <<2962, 2965>>,
     <<2969, 2970>>, <<2972, 2972>>, <<2974, 2975>>, <<2979, 2980>>,
     <<2984, 2986>>, <<2990, 3001>>, <<3024, 3024>>, <<3046, 3058>>,
     <<3077, 3084>>, <<3086, 3088>>, <<3090, 3112>>, <<3114, 3129>>,
     <<3133, 3133>>, <<3160, 3162>>, <<3165, 3165>>, <<3168, 3169>>,
     <<3174, 3183>>, <<3192, 3198>>, <<3200, 3200>>, <<3205, 3212>>,
     <<3214, 3216>>, <<3218, 3240>>, <<3242, 3251>>, <<3253, 3257>>,
     <<3261, 3261>>, <<3293, 3294>>, <<3296, 3297>>, <<3302, 3311>>,
     <<3313, 3314>>, <<3332, 3340>>, <<3342, 3344>>, <<3346, 3386>>,
     <<3389, 3389>>, <<3406, 3406>>, <<3412, 3414>>, <<3416, 3425>>,
     <<3430, 3448>>, <<3450, 3455>>, <<3461, 3478>>, <<3482, 3505>>,
     <<3507, 3515>>, <<3517, 3517>>, <<3520, 3526>>, <<3558, 3567>>,
     <<3585, 3632>>, <<3634, 3635>>, <<3648, 3654>>, <<3664, 3673>>,
     <<3713, 3714>>, <<3716, 3716>>, <<3718, 3722>>, <<3724, 3747>>,
     <<3749, 3749>>, <<3751, 3760>>, <<3762, 3763>>, <<3773, 3773>>,
     <<3776, 3780>>, <<3782, 3782>>, <<3792, 3801>>, <<3804, 3807>>,
     <<3840, 3840>>, <<3872, 3891>>, <<3904, 3911>>, <<3913, 3948>>,
     <<3976, 3980>>, <<4096, 4138>>, <<4159, 4169>>, <<4176, 4181>>,
     <<4186, 4189>>, <<4193, 4193>>, <<4197, 4198>>, <<4206, 4208>>,
     <<4213, 4225>>, <<4238, 4238>>, <<4240, 4249>>, <<4256, 4293>>,
     <<4295, 4295>>, <<4301, 4301>>, <<4304, 4346>>, <<4348, 4680>>,
     <<4682, 4685>>, <<4688, 4694>>, <<4696, 4696>>, <<4698, 4701>>,
     <<4704, 4744>>, <<4746, 4749>>, <<4752, 4784>>, <<4786, 4789>>,
     <<4792, 4798>>, <<4800, 4800>>, <<4802, 4805>>, <<4808, 4822>>,
     <<4824, 4880>>, <<4882, 4885>>, <<4888, 4954>>, <<4969, 4988>>,
     <<4992, 5007>>, <<5024, 5109>>, <<5112, 5117>>, <<5121, 5740>>,
     <<5743, 5759>>, <<5761, 5786>>, <<5792, 5866>>, <<5870, 5880>>,
     <<5888, 5905>>, <<5919, 5937>>, <<5952, 5969>>, <<5984, 5996>>,
     <<5998, 6000>>, <<6016, 6067>>, <<6103, 6103>>, <<6108, 6108>>,
     <<6112, 6121>>, <<6128, 6137>>, <<6160, 6169>>, <<6176, 6264>>,
     <<6272, 6276>>, <<6279, 6312>>, <<6314, 6314>>, <<6320, 6389>>,
     <<6400, 6430>>, <<6470, 6509>>, <<6512, 6516>>, <<6528, 6571>>,
     <<6576, 6601>>, <<6608, 6618>>, <<6656, 6678>>, <<6688, 6740>>,
     <<6784, 6793>>, <<6800, 6809>>, <<6823, 6823>>, <<6917, 6963>>,
     <<6981, 6988>>, <<6992, 7001>>, <<7043, 7072>>, <<7086, 7141>>,
     <<7168, 7203>>, <<7232, 7241>>, <<7245, 7293>>, <<7296, 7304>>,
     <<7312, 7354>>, <<7357, 7359>>, <<7401, 7404>>, <<7406, 7411>>,
     <<7413, 7414>>, <<7418, 7418>>, <<7424, 7615>>, <<7680, 7957>>,
     <<7960, 7965>>, <<7968, 8005>>, <<8008, 8013>>, <<8016, 8023>>,
     <<8025, 8025>>, <<8027, 8027>>, <<8029, 8029>>, <<8031, 8061>>,
     <<8064, 8116>>, <<8118, 8124>>, <<8126, 8126>>, <<8130, 8132>>,
     <<8134, 8140>>, <<8144, 8147>>, <<8150, 8155>>, <<8160, 8172>>,
     <<8178, 8180>>, <<8182, 8188>>, <<8304, 8305>>, <<8308, 8313>>,
     <<8319, 8329>>, <<8336, 8348>>, <<8450, 8450>>, <<8455, 8455>>,
     <<8458, 8467>>, <<8469, 8469>>, <<8473, 8477>>, <<8484, 8484>>,
     <<8486, 8486>>, <<8488, 8488>>, <<8490, 8493>>, <<8495, 8505>>,
     <<8508, 8511>>, <<8517, 8521>>, <<8526, 8526>>, <<8528, 8585>>,
     <<9312, 9371>>, <<9450, 9471>>, <<10102, 10131>>, <<11264, 11492>>,
     <<11499, 11502>>, <<11506, 11507>>, <<11517, 11517>>, <<11520, 11557>>,
     <<11559, 11559>>, <<11565, 11565>>, <<11568, 11623>>, <<11631, 11631>>,
     <<11648, 11670>>, <<11680, 11686>>, <<11688, 11694>>, <<11696, 11702>>,
     <<11704, 11710>>, <<11712, 11718>>, <<11720, 11726>>, <<11728, 11734>>,
     <<11736, 11742>>, <<11823, 11823>>, <<12293, 12295>>, <<12321, 12329>>,
     <<12337, 12341>>, <<12344, 12348>>, <<12353, 12438>>, <<12445, 12447>>,
     <<12449, 12538>>, <<12540, 12543>>, <<12549, 12591>>, <<12593, 12686>>,
     <<12690, 12693>>, <<12704, 12735>>, <<12784, 12799>>, <<12832, 12841>>,
     <<12872, 12879>>, <<12881, 12895>>, <<12928, 12937>>, <<12977, 12991>>,
     <<13312, 19903>>, <<19968, 42124>>, <<42192, 42237>>, <<42240, 42508>>,
     <<42512, 42539>>, <<42560, 42606>>, <<42623, 42653>>, <<42656, 42735>>,
     <<42775, 42783>>, <<42786, 42888>>, <<42891, 42954>>, <<42960, 42961>>,
     <<42963, 42963>>, <<42965, 42969>>, <<42994, 43009>>, <<43011, 43013>>,
     <<43015, 43018>>, <<43020, 43042>>, <<43056, 43061>>, <<43072, 43123>>,
     <<43138, 43187>>, <<43216, 43225>>, <<43250, 43255>>, <<43259, 43259>>,
     <<43261, 43262>>, <<43264, 43301>>, <<43312, 43334>>, <<43360, 43388>>,
     <<43396, 43442>>, <<43471, 43481>>, <<43488, 43492>>, <<43494, 43518>>,
     <<43520, 43560>>, <<43584, 43586>>, <<43588, 43595>>, <<43600, 43609>>,
     <<43616, 43638>>, <<43642, 43642>>, <<43646, 43695>>, <<43697, 43697>>,
     <<43701, 43702>>, <<43705, 43709>>, <<43712, 43712>>, <<43714, 43714>>,
     <<43739, 43741>>, <<43744, 43754>>, <<43762, 43764>>, <<43777, 43782>>,
     <<43785, 43790>>, <<43793, 43798>>, <<43808, 43814>>, <<43816, 43822>>,
     <<43824, 43866>>, <<43868, 43881>>, <<43888, 44002>>, <<44016, 44025>>,
     <<44032, 55203>>, <<55216, 55238>>, <<55243, 55291>>, <<63744, 64109>>,
     <<64112, 64217>>, <<64256, 64262>>, <<64275, 64279>>, <<64285, 64285>>,
     <<64287, 64296>>, <<64298, 64310>>, <<64312, 64316>>, <<64318, 64318>>,
     <<64320, 64321>>, <<64323, 64324>>, <<64326, 64433>>, <<64467, 64829>>,
     <<64848, 64911>>, <<64914, 64967>>, <<65008, 65019>>, <<65136, 65140>>,
     <<65142, 65276>>, <<65296, 65305>>, <<65313, 65338>>, <<65345, 65370>>,
     <<65382, 65470>>, <<65474, 65479>>, <<65482, 65487>>, <<65490, 65495>>,
     <<65498, 65500>>, <<65536, 65547>>, <<65549, 65574>>, <<65576, 65594>>,
     <<65596, 65597>>, <<65599, 65613>>, <<65616, 65629>>, <<65664, 65786>>,
     <<65799, 65843>>, <<65856, 65912>>, <<65930, 65931>>, <<66176, 66204>>,
     <<66208, 66256>>, <<66273, 66299>>, <<66304, 66339>>, <<66349, 66378>>,
     <<66384, 66421>>, <<66432, 66461>>, <<66464, 66499>>, <<66504, 66511>>,
     <<66513, 66517>>, <<66560, 66717>>, <<66720, 66729>>, <<66736, 66771>>,
     <<66776, 66811>>, <<66816, 66855>>, <<66864, 66915>>, <<66928, 66938>>,
     <<66940, 66954>>, <<66956, 66962>>, <<66964, 66965>>, <<66967, 66977>>,
     <<66979, 66993>>, <<66995, 67001>>, <<67003, 67004>>, <<67072, 67382>>,
     <<67392, 67413>>, <<67424, 67431>>, <<67456, 67461>>, <<67463, 67504>>,
     <<67506, 67514>>, <<67584, 67589>>, <<67592, 67592>>, <<67594, 67637>>,
     <<67639, 67640>>, <<67644, 67644>>, <<67647, 67669>>, <<67672, 67702>>,
     <<67705, 67742>>, <<67751, 67759>>, <<67808, 67826>>, <<67828, 67829>>,
     <<67835, 67867>>, <<67872, 67897>>, <<67968, 68023>>, <<68028, 68047>>,
     <<68050, 68096>>, <<68112, 68115>>, <<68117, 68119>>, <<68121, 68149>>,
     <<68160, 68168>>, <<68192, 68222>>, <<68224, 68255>>, <<68288, 68295>>,
     <<68297, 68324>>, <<68331, 68335>>, <<68352, 68405>>, <<68416, 68437>>,
     <<68440, 68466>>, <<68472, 68497>>, <<68521, 68527>>, <<68608, 68680>>,
     <<68736, 68786>>, <<68800, 68850>>, <<68858, 68899>>, <<68912, 68921>>,
     <<69216, 69246>>, <<69248, 69289>>, <<69296, 69297>>, <<69376, 69415>>,
     <<69424, 69445>>, <<69457, 69460>>, <<69488, 69505>>, <<69552, 69579>>,
     <<69600, 69622>>, <<69635, 69687>>, <<69714, 69743>>, <<69745, 69746>>,
     <<69749, 69749>>, <<69763, 69807>>, <<69840, 69864>>, <<69872, 69881>>,
     <<69891, 69926>>, <<69942, 69951>>, <<69956, 69956>>, <<69959, 69959>>,
     <<69968, 70002>>, <<70006, 70006>>, <<70019, 70066>>, <<70081, 70084>>,
     <<70096, 70106>>, <<70108, 70108>>, <<70113, 70132>>, <<70144, 70161>>,
     <<70163, 70187>>, <<70272, 70278>>, <<70280, 70280>>, <<70282, 70285>>,
     <<70287, 70301>>, <<70303, 70312>>, <<70320, 70366>>, <<70384, 70393>>,
     <<70405, 70412>>, <<70415, 70416>>, <<70419, 70440>>, <<70442, 70448>>,
     <<70450, 70451>>, <<70453, 70457>>, <<70461, 70461>>, <<70480, 70480>>,
     <<70493, 70497>>, <<70656, 70708>>, <<70727, 70730>>, <<70736, 70745>>,
     <<70751, 70753>>, <<70784, 70831>>, <<70852, 70853>>, <<70855, 70855>>,
     <<70864, 70873>>, <<71040, 71086>>, <<71128, 71131>>, <<71168, 71215>>,
     <<71236, 71236>>, <<71248, 71257>>, <<71296, 71338>>, <<71352, 71352>>,
     <<71360, 71369>>, <<71424, 71450>>, <<71472, 71483>>, <<71488, 71494>>,
     <<71680, 71723>>, <<71840, 71922>>, <<71935, 71942>>, <<71945, 71945>>,
     <<71948, 71955>>, <<71957, 71958>>, <<71960, 71983>>, <<71999, 71999>>,
     <<72001, 72001>>, <<72016, 72025>>, <<72096, 72103>>, <<72106, 72144>>,
     <<72161, 72161>>, <<72163, 72163>>, <<72192, 72192>>, <<72203, 72242>>,
     <<72250, 72250>>, <<72272, 72272>>, <<72284, 72329>>, <<72349, 72349>>,
     <<72368, 72440>>, <<72704, 72712>>, <<72714, 72750>>, <<72768, 72768>>,
     <<72784, 72812>>, <<72818, 72847>>, <<72960, 72966>>, <<72968, 72969>>,
     <<72971, 73008>>, <<73030, 73030>>, <<73040, 73049>>, <<73056, 73061>>,
     <<73063, 73064>>, <<73066, 73097>>, <<73112, 73112>>, <<73120, 73129>>,
     <<73440, 73458>>, <<73648, 73648>>, <<73664, 73684>>, <<73728, 74649>>,
     <<74752, 74862>>, <<74880, 75075>>, <<77712, 77808>>, <<77824, 78894>>,
     <<82944, 83526>>, <<92160, 92728>>, <<92736, 92766>>, <<92768, 92777>>,
     <<92784, 92862>>, <<92864, 92873>>, <<92880, 92909>>, <<92928, 92975>>,
     <<92992, 92995>>, <<93008, 93017>>, <<93019, 93025>>, <<93027, 93047>>,
     <<93053, 93071>>, <<93760, 93846>>, <<93952, 94026>>, <<94032, 94032>>,
     <<94099, 94111>>, <<94176, 94177>>, <<94179, 94179>>, <<94208, 100343>>,
     <<100352, 101589>>, <<101632, 101640>>, <<110576, 110579>>,
     <<110581, 110587>>, <<110589, 110590>>, <<110592, 110882>>,
     <<110928, 110930>>, <<110948, 110951>>, <<110960, 111355>>,
     <<113664, 113770>>, <<113776, 113788>>, <<113792, 113800>>,
     <<113808, 113817>>, <<119520, 119539>>, <<119648, 119672>>,
     <<119808, 119892>>, <<119894, 119964>>, <<119966, 119967>>,
     <<119970, 119970>>, <<119973, 119974>>, <<119977, 119980>>,
     <<119982, 119993>>, <<119995, 119995>>, <<119997, 120003>>,
     <<120005, 120069>>, <<120071, 120074>>, <<120077, 120084>>,
     <<120086, 120092>>, <<120094, 120121>>, <<120123, 120126>>,
     <<120128, 120132>>, <<120134, 120134>>, <<120138, 120144>>,
     <<120146, 120485>>, <<120488, 120512>>, <<120514, 120538>>,
     <<120540, 120570>>, <<120572, 120596>>, <<120598, 120628>>,
     <<120630, 120654>>, <<120656, 120686>>, <<120688, 120712>>,
     <<120714, 120744>>, <<120746, 120770>>, <<120772, 120779>>,
     <<120782, 120831>>, <<122624, 122654>>, <<123136, 123180>>,
     <<123191, 123197>>, <<123200, 123209>>, <<123214, 123214>>,
     <<123536, 123565>>, <<123584, 123627>>, <<123632, 123641>>,
     <<124896, 124902>>, <<124904, 124907>>, <<124909, 124910>>,
     <<124912, 124926>>, <<124928, 125124>>, <<125127, 125135>>,
     <<125184, 125251>>, <<125259, 125259>>, <<125264, 125273>>,
     <<126065, 126123>>, <<126125, 126127>>, <<126129, 126132>>,
     <<126209, 126253>>, <<126255, 126269>>, <<126464, 126467>>,
     <<126469, 126495>>, <<126497, 126498>>, <<126500, 126500>>,
     <<126503, 126503>>, <<126505, 126514>>, <<126516, 126519>>,
     <<126521, 126521>>, <<126523, 126523>>, <<126530, 126530>>,
     <<126535, 126535>>, <<126537, 126537>>, <<126539, 126539>>,
     <<126541, 126543>>, <<126545, 126546>>, <<126548, 126548>>,
     <<126551, 126551>>, <<126553, 126553>>, <<126555, 126555>>,
     <<126557, 126557>>, <<126559, 126559>>, <<126561, 126562>>,
     <<126564, 126564>>, <<126567, 126570>>, <<126572, 126578>>,
     <<126580, 126583>>, <<126585, 126588>>, <<126590, 126590>>,
     <<126592, 126601>>, <<126603, 126619>>, <<126625, 126627>>,
     <<126629, 126633>>, <<126635, 126651>>, <<127232, 127244>>,
     <<130032, 130041>>, <<131072, 173791>>, <<173824, 177976>>,
     <<177984, 178205>>, <<178208, 183969>>, <<183984, 191456>>,
     <<194560, 195101>>, <<196608, 201546>>}

\* General category L, N, P or S: letters, numbers, punctuation, symbols.
SafeRanges ==
    {<<161, 172>>, <<174, 767>>, <<880, 887>>, <<890, 895>>, <<900, 906>>,
     <<908, 908>>, <<910, 929>>, <<931, 1154>>, <<1162, 1327>>,
     <<1329, 1366>>, <<1369, 1418>>, <<1421, 1423>>, <<1470, 1470>>,
     <<1472, 1472>>, <<1475, 1475>>, <<1478, 1478>>, <<1488, 1514>>,
     <<1519, 1524>>, <<1542, 1551>>, <<1563, 1563>>, <<1565, 1610>>,
     <<1632, 1647>>, <<1649, 1749>>, <<1758, 1758>>, <<1765, 1766>>,
     <<1769, 1769>>, <<1774, 1805>>, <<1808, 1808>>, <<1810, 1839>>,
     <<1869, 1957>>, <<1969, 1969>>, <<1984, 2026>>, <<2036, 2042>>,
     <<2046, 2069>>, <<2074, 2074>>, <<2084, 2084>>, <<2088, 2088>>,
     <<2096, 2110>>, <<2112, 2136>>, <<2142, 2142>>, <<2144, 2154>>,
     <<2160, 2190>>, <<2208, 2249>>, <<2308, 2361>>, <<2365, 2365>>,
     <<2384, 2384>>, <<2392, 2401>>, <<2404, 2432>>, <<2437, 2444>>,
     <<2447, 2448>>, <<2451, 2472>>, <<2474, 2480>>, <<2482, 2482>>,
     <<2486, 2489>>, <<2493, 2493>>, <<2510, 2510>>, <<2524, 2525>>,
     <<2527, 2529>>, <<2534, 2557>>, <<2565, 2570>>, <<2575, 2576>>,
     <<2579, 2600>>, <<2602, 2608>>, <<2610, 2611>>, <<2613, 2614>>,
     <<2616, 2617>>, <<2649, 2652>>, <<2654, 2654>>, <<2662, 2671>>,
     <<2674, 2676>>, <<2678, 2678>>, <<2693, 2701>>, <<2703, 2705>>,
     <<2707, 2728>>, <<2730, 2736>>, <<2738, 2739>>, <<2741, 2745>>,
     <<2749, 2749>>, <<2768, 2768>>, <<2784, 2785>>, <<2790, 2801>>,
     <<2809, 2809>>, <<2821, 2828>>, <<2831, 2832>>, <<2835, 2856>>,
     <<2858, 2864>>, <<2866, 2867>>, <<2869, 2873>>, <<2877, 2877>>,
     <<2908, 2909>>, <<2911, 2913>>, <<2918, 2935>>, <<2947, 2947>>,
     <<2949, 2954>>, <<2958, 2960>>, <<2962, 2965>>, <<2969, 2970>>,
     <<2972, 2972>>, <<2974, 2975>>, <<2979, 2980>>, <<2984, 2986>>,
     <<2990, 3001>>, <<3024, 3024>>, <<3046, 3066>>, <<3077, 3084>>,
     <<3086, 3088>>, <<3090, 3112>>, <<3114, 3129>>, <<3133, 3133>>,
     <<3160, 3162>>, <<3165, 3165>>, <<3168, 3169>>, <<3174, 3183>>,
     <<3191, 3200>>, <<3204, 3212>>, <<3214, 3216>>, <<3218, 3240>>,
     <<3242, 3251>>, <<3253, 3257>>, <<3261, 3261>>, <<3293, 3294>>,
     <<3296, 3297>>, <<3302, 3311>>, <<3313, 3314>>, <<3332, 3340>>,
     <<3342, 3344>>, <<3346, 3386>>, <<3389, 3389>>, <<3406, 3407>>,
     <<3412, 3414>>, <<3416, 3425>>, <<3430, 3455>>, <<3461, 3478>>,
     <<3482, 3505>>, <<3507, 3515>>, <<3517, 3517>>, <<3520, 3526>>,
     <<3558, 3567>>, <<3572, 3572>>, <<3585, 3632>>, <<3634, 3635>>,
     <<3647, 3654>>, <<3663, 3675>>, <<3713, 3714>>, <<3716, 3716>>,
     <<3718, 3722>>, <<3724, 3747>>, <<3749, 3749>>, <<3751, 3760>>,
     <<3762, 3763>>, <<3773, 3773>>, <<3776, 3780>>, <<3782, 3782>>,
     <<3792, 3801>>, <<3804, 3807>>, <<3840, 3863>>, <<3866, 3892>>,
     <<3894, 3894>>, <<3896, 3896>>, <<3898, 3901>>, <<3904, 3911>>,
     <<3913, 3948>>, <<3973, 3973>>, <<3976, 3980>>, <<4030, 4037>>,
     <<4039, 4044>>, <<4046, 4058>>, <<4096, 4138>>, <<4159, 4181>>,
     <<4186, 4189>>, <<4193, 4193>>, <<4197, 4198>>, <<4206, 4208>>,
     <<4213, 4225>>, <<4238, 4238>>, <<4240, 4249>>, <<4254, 4293>>,
     <<4295, 4295>>, <<4301, 4301>>, <<4304, 4680>>, <<4682, 4685>>,
     <<4688, 4694>>, <<4696, 4696>>, <<4698, 4701>>, <<4704, 4744>>,
     <<4746, 4749>>, <<4752, 4784>>, <<4786, 4789>>, <<4792, 4798>>,
     <<4800, 4800>>, <<4802, 4805>>, <<4808, 4822>>, <<4824, 4880>>,
     <<4882, 4885>>, <<4888, 4954>>, <<4960, 4988>>, <<4992, 5017>>,
     <<5024, 5109>>, <<5112, 5117>>, <<5120, 5759>>, <<5761, 5788>>,
     <<5792, 5880>>, <<5888, 5905>>, <<5919, 5937>>, <<5941, 5942>>,
     <<5952, 5969>>, <<5984, 5996>>, <<5998, 6000>>, <<6016, 6067>>,
     <<6100, 6108>>, <<6112, 6121>>, <<6128, 6137>>, <<6144, 6154>>,
     <<6160, 6169>>, <<6176, 6264>>, <<6272, 6276>>, <<6279, 6312>>,
     <<6314, 6314>>, <<6320, 6389>>, <<6400, 6430>>, <<6464, 6464>>,
     <<6468, 6509>>, <<6512, 6516>>, <<6528, 6571>>, <<6576, 6601>>,
     <<6608, 6618>>, <<6622, 6678>>, <<6686, 6740>>, <<6784, 6793>>,
     <<6800, 6809>>, <<6816, 6829>>, <<6917, 6963>>, <<6981, 6988>>,
     <<6992, 7018>>, <<7028, 7038>>, <<7043, 7072>>, <<7086, 7141>>,
     <<7164, 7203>>, <<7227, 7241>>, <<7245, 7304>>, <<7312, 7354>>,
     <<7357, 7367>>, <<7379, 7379>>, <<7401, 7404>>, <<7406, 7411>>,
     <<7413, 7414>>, <<7418, 7418>>, <<7424, 7615>>, <<7680, 7957>>,
     <<7960, 7965>>, <<7968, 8005>>, <<8008, 8013>>, <<8016, 8023>>,
     <<8025, 8025>>, <<8027, 8027>>, <<8029, 8029>>, <<8031, 8061>>,
     <<8064, 8116>>, <<8118, 8132>>, <<8134, 8147>>, <<8150, 8155>>,
     <<8157, 8175>>, <<8178, 8180>>, <<8182, 8190>>, <<8208, 8231>>,
     <<8240, 8286>>, <<8304, 8305>>, <<8308, 8334>>, <<8336, 8348>>,
     <<8352, 8384>>, <<8448, 8587>>, <<8592, 9254>>, <<9280, 9290>>,
     <<9312, 11123>>, <<11126, 11157>>, <<11159, 11502>>, <<11506, 11507>>,
     <<11513, 11557>>, <<11559, 11559>>, <<11565, 11565>>, <<11568, 11623>>,
     <<11631, 11632>>, <<11648, 11670>>, <<11680, 11686>>, <<11688, 11694>>,
     <<11696, 11702>>, <<11704, 11710>>, <<11712, 11718>>, <<11720, 11726>>,
     <<11728, 11734>>, <<11736, 11742>>, <<11776, 11869>>, <<11904, 11929>>,
     <<11931, 12019>>, <<12032, 12245>>, <<12272, 12283>>, <<12289, 12329>>,
     <<12336, 12351>>, <<12353, 12438>>, <<12443, 12543>>, <<12549, 12591>>,
     <<12593, 12686>>, <<12688, 12771>>, <<12784, 12830>>, <<12832, 42124>>,
     <<42128, 42182>>, <<42192, 42539>>, <<42560, 42606>>, <<42611, 42611>>,
     <<42622, 42653>>, <<42656, 42735>>, <<42738, 42743>>, <<42752, 42954>>,
     <<42960, 42961>>, <<42963, 42963>>, <<42965, 42969>>, <<42994, 43009>>,
     <<43011, 43013>>, <<43015, 43018>>, <<43020, 43042>>, <<43048, 43051>>,
     <<43056, 43065>>, <<43072, 43127>>, <<43138, 43187>>, <<43214, 43225>>,
     <<43250, 43262>>, <<43264, 43301>>, <<43310, 43334>>, <<43359, 43388>>,
     <<43396, 43442>>, <<43457, 43469>>, <<43471, 43481>>, <<43486, 43492>>,
     <<43494, 43518>>, <<43520, 43560>>, <<43584, 43586>>, <<43588, 43595>>,
     <<43600, 43609>>, <<43612, 43642>>, <<43646, 43695>>, <<43697, 43697>>,
     <<43701, 43702>>, <<43705, 43709>>, <<43712, 43712>>, <<43714, 43714>>,
     <<43739, 43754>>, <<43760, 43764>>, <<43777, 43782>>, <<43785, 43790>>,
     <<43793, 43798>>, <<43808, 43814>>, <<43816, 43822>>, <<43824, 43883>>,
     <<43888, 44002>>, <<44011, 44011>>, <<44016, 44025>>, <<44032, 55203>>,
     <<55216, 55238>>, <<55243, 55291>>, <<63744, 64109>>, <<64112, 64217>>,
     <<64256, 64262>>, <<64275, 64279>>, <<64285, 64285>>, <<64287, 64310>>,
     <<64312, 64316>>, <<64318, 64318>>, <<64320, 64321>>, <<64323, 64324>>,
     <<64326, 64450>>, <<64467, 64911>>, <<64914, 64967>>, <<64975, 64975>>,
     <<65008, 65023>>, <<65040, 65049>>, <<65072, 65106>>, <<65108, 65126>>,
     <<65128, 65131>>, <<65136, 65140>>, <<65142, 65276>>, <<65281, 65470>>,
     <<65474, 65479>>, <<65482, 65487>>, <<65490, 65495>>, <<65498, 65500>>,
     <<65504, 65510>>, <<65512, 65518>>, <<65532, 65533>>, <<65536, 65547>>,
     <<65549, 65574>>, <<65576, 65594>>, <<65596, 65597>>, <<65599, 65613>>,
     <<65616, 65629>>, <<65664, 65786>>, <<65792, 65794>>, <<65799, 65843>>,
     <<65847, 65934>>, <<65936, 65948>>, <<65952, 65952>>, <<66000, 66044>>,
     <<66176, 66204>>, <<66208, 66256>>, <<66273, 66299>>, <<66304, 66339>>,
     <<66349, 66378>>, <<66384, 66421>>, <<66432, 66461>>, <<66463, 66499>>,
     <<66504, 66517>>, <<66560, 66717>>, <<66720, 66729>>, <<66736, 66771>>,
     <<66776, 66811>>, <<66816, 66855>>, <<66864, 66915>>, <<66927, 66938>>,
     <<66940, 66954>>, <<66956, 66962>>, <<66964, 66965>>, <<66967, 66977>>,
     <<66979, 66993>>, <<66995, 67001>>, <<67003, 67004>>, <<67072, 67382>>,
     <<67392, 67413>>, <<67424, 67431>>, <<67456, 67461>>, <<67463, 67504>>,
     <<67506, 67514>>, <<67584, 67589>>, <<67592, 67592>>, <<67594, 67637>>,
     <<67639, 67640>>, <<67644, 67644>>, <<67647, 67669>>, <<67671, 67742>>,
     <<67751, 67759>>, <<67808, 67826>>, <<67828, 67829>>, <<67835, 67867>>,
     <<67871, 67897>>, <<67903, 67903>>, <<67968, 68023>>, <<68028, 68047>>,
     <<68050, 68096>>, <<68112, 68115>>, <<68117, 68119>>, <<68121, 68149>>,
     <<68160, 68168>>, <<68176, 68184>>, <<68192, 68255>>, <<68288, 68324>>,
     <<68331, 68342>>, <<68352, 68405>>, <<68409, 68437>>, <<68440, 68466>>,
     <<68472, 68497>>, <<68505, 68508>>, <<68521, 68527>>, <<68608, 68680>>,
     <<68736, 68786>>, <<68800, 68850>>, <<68858, 68899>>, <<68912, 68921>>,
     <<69216, 69246>>, <<69248, 69289>>, <<69293, 69293>>, <<69296, 69297>>,
     <<69376, 69415>>, <<69424, 69445>>, <<69457, 69465>>, <<69488, 69505>>,
     <<69510, 69513>>, <<69552, 69579>>, <<69600, 69622>>, <<69635, 69687>>,
     <<69703, 69709>>, <<69714, 69743>>, <<69745, 69746>>, <<69749, 69749>>,
     <<69763, 69807>>, <<69819, 69820>>, <<69822, 69825>>, <<69840, 69864>>,
     <<69872, 69881>>, <<69891, 69926>>, <<69942, 69956>>, <<69959, 69959>>,
     <<69968, 70002>>, <<70004, 70006>>, <<70019, 70066>>, <<70081, 70088>>,
     <<70093, 70093>>, <<70096, 70111>>, <<70113, 70132>>, <<70144, 70161>>,
     <<70163, 70187>>, <<70200, 70205>>, <<70272, 70278>>, <<70280, 70280>>,
     <<70282, 70285>>, <<70287, 70301>>, <<70303, 70313>>, <<70320, 70366>>,
     <<70384, 70393>>, <<70405, 70412>>, <<70415, 70416>>, <<70419, 70440>>,
     <<70442, 70448>>, <<70450, 70451>>, <<70453, 70457>>, <<70461, 70461>>,
     <<70480, 70480>>, <<70493, 70497>>, <<70656, 70708>>, <<70727, 70747>>,
     <<70749, 70749>>, <<70751, 70753>>, <<70784, 70831>>, <<70852, 70855>>,
     <<70864, 70873>>, <<71040, 71086>>, <<71105, 71131>>, <<71168, 71215>>,
     <<71233, 71236>>, <<71248, 71257>>, <<71264, 71276>>, <<71296, 71338>>,
     <<71352, 71353>>, <<71360, 71369>>, <<71424, 71450>>, <<71472, 71494>>,
     <<71680, 71723>>, <<71739, 71739>>, <<71840, 71922>>, <<71935, 71942>>,
     <<71945, 71945>>, <<71948, 71955>>, <<71957, 71958>>, <<71960, 71983>>,
     <<71999, 71999>>, <<72001, 72001>>, <<72004, 72006>>, <<72016, 72025>>,
     <<72096, 72103>>, <<72106, 72144>>, <<72161, 72163>>, <<72192, 72192>>,
     <<72203, 72242>>, <<72250, 72250>>, <<72255, 72262>>, <<72272, 72272>>,
     <<72284, 72329>>, <<72346, 72354>>, <<72368, 72440>>, <<72704, 72712>>,
     <<72714, 72750>>, <<72768, 72773>>, <<72784, 72812>>, <<72816, 72847>>,
     <<72960, 72966>>, <<72968, 72969>>, <<72971, 73008>>, <<73030, 73030>>,
     <<73040, 73049>>, <<73056, 73061>>, <<73063, 73064>>, <<73066, 73097>>,
     <<73112, 73112>>, <<73120, 73129>>, <<73440, 73458>>, <<73463, 73464>>,
     <<73648, 73648>>, <<73664, 73713>>, <<73727, 74649>>, <<74752, 74862>>,
     <<74864, 74868>>, <<74880, 75075>>, <<77712, 77810>>, <<77824, 78894>>,
     <<82944, 83526>>, <<92160, 92728>>, <<92736, 92766>>, <<92768, 92777>>,
     <<92782, 92862>>, <<92864, 92873>>, <<92880, 92909>>, <<92917, 92917>>,
     <<92928, 92975>>, <<92983, 92997>>, <<93008, 93017>>, <<93019, 93025>>,
     <<93027, 93047>>, <<93053, 93071>>, <<93760, 93850>>, <<93952, 94026>>,
     <<94032, 94032>>, <<94099, 94111>>, <<94176, 94179>>, <<94208, 100343>>,
     <<100352, 101589>>, <<101632, 101640>>, <<110576, 110579>>,
     <<110581, 110587>>, <<110589, 110590>>, <<110592, 110882>>,
     <<110928, 110930>>, <<110948, 110951>>, <<110960, 111355>>,
     <<113664, 113770>>, <<113776, 113788>>, <<113792, 113800>>,
     <<113808, 113817>>, <<113820, 113820>>, <<113823, 113823>>,
     <<118608, 118723>>, <<118784, 119029>>, <<119040, 119078>>,
     <<119081, 119140>>, <<119146, 119148>>, <<119171, 119172>>,
     <<119180, 119209>>, <<119214, 119274>>, <<119296, 119361>>,
     <<119365, 119365>>, <<119520, 119539>>, <<119552, 119638>>,
     <<119648, 119672>>, <<119808, 119892>>, <<119894, 119964>>,
     <<119966, 119967>>, <<119970, 119970>>, <<119973, 119974>>,
     <<119977, 119980>>, <<119982, 119993>>, <<119995, 119995>>,
     <<119997, 120003>>, <<120005, 120069>>, <<120071, 120074>>,
     <<120077, 120084>>, <<120086, 120092>>, <<120094, 120121>>,
     <<120123, 120126>>, <<120128, 120132>>, <<120134, 120134>>,
     <<120138, 120144>>, <<120146, 120485>>, <<120488, 120779>>,
     <<120782, 121343>>, <<121399, 121402>>, <<121453, 121460>>,
     <<121462, 121475>>, <<121477, 121483>>, <<122624, 122654>>,
     <<123136, 123180>>, <<123191, 123197>>, <<123200, 123209>>,
     <<123214, 123215>>, <<123536, 123565>>, <<123584, 123627>>,
     <<123632, 123641>>, <<123647, 123647>>, <<124896, 124902>>,
     <<124904, 124907>>, <<124909, 124910>>, <<124912, 124926>>,
     <<124928, 125124>>, <<125127, 125135>>, <<125184, 125251>>,
     <<125259, 125259>>, <<125264, 125273>>, <<125278, 125279>>,
     <<126065, 126132>>, <<126209, 126269>>, <<126464, 126467>>,
     <<126469, 126495>>, <<126497, 126498>>, <<126500, 126500>>,
     <<126503, 126503>>, <<126505, 126514>>, <<126516, 126519>>,
     <<126521, 126521>>, <<126523, 126523>>, <<126530, 126530>>,
     <<126535, 126535>>, <<126537, 126537>>, <<126539, 126539>>,
     <<126541, 126543>>, <<126545, 126546>>, <<126548, 126548>>,
     <<126551, 126551>>, <<126553, 126553>>, <<126555, 126555>>,
     <<126557, 126557>>, <<126559, 126559>>, <<126561, 126562>>,
     <<126564, 126564>>, <<126567, 126570>>, <<126572, 126578>>,
     <<126580, 126583>>, <<126585, 126588>>, <<126590, 126590>>,
     <<126592, 126601>>, <<126603, 126619>>, <<126625, 126627>>,
     <<126629, 126633>>, <<126635, 126651>>, <<126704, 126705>>,
     <<126976, 127019>>, <<127024, 127123>>, <<127136, 127150>>,
     <<127153, 127167>>, <<127169, 127183>>, <<127185, 127221>>,
     <<127232, 127405>>, <<127462, 127490>>, <<127504, 127547>>,
     <<127552, 127560>>, <<127568, 127569>>, <<127584, 127589>>,
     <<127744, 128727>>, <<128733, 128748>>, <<128752, 128764>>,
     <<128768, 128883>>, <<128896, 128984>>, <<128992, 129003>>,
     <<129008, 129008>>, <<129024, 129035>>, <<129040, 129095>>,
     <<129104, 129113>>, <<129120, 129159>>, <<129168, 129197>>,
     <<129200, 129201>>, <<129280, 129619>>, <<129632, 129645>>,
     <<129648, 129652>>, <<129656, 129660>>, <<129664, 129670>>,
     <<129680, 129708>>, <<129712, 129722>>, <<129728, 129733>>,
     <<129744, 129753>>, <<129760, 129767>>, <<129776, 129782>>,
     <<129792, 129938>>, <<129940, 129994>>, <<130032, 130041>>,
     <<131072, 173791>>, <<173824, 177976>>, <<177984, 178205>>,
     <<178208, 183969>>, <<183984, 191456>>, <<194560, 195101>>,
     <<196608, 201546>>}

\* General category M: combining marks.
MarkRanges ==
    {<<768, 879>>, <<1155, 1161>>, <<1425, 1469>>, <<1471, 1471>>,
     <<1473, 1474>>, <<1476, 1477>>, <<1479, 1479>>, <<1552, 1562>>,
     <<1611, 1631>>, <<1648, 1648>>, <<1750, 1756>>, <<1759, 1764>>,
     <<1767, 1768>>, <<1770, 1773>>, <<1809, 1809>>, <<1840, 1866>>,
     <<1958, 1968>>, <<2027, 2035>>, <<2045, 2045>>, <<2070, 2073>>,
     <<2075, 2083>>, <<2085, 2087>>, <<2089, 2093>>, <<2137, 2139>>,
     <<2200, 2207>>, <<2250, 2273>>, <<2275, 2307>>, <<2362, 2364>>,
     <<2366, 2383>>, <<2385, 2391>>, <<2402, 2403>>, <<2433, 2435>>,
     <<2492, 2492>>, <<2494, 2500>>, <<2503, 2504>>, <<2507, 2509>>,
     <<2519, 2519>>, <<2530, 2531>>, <<2558, 2558>>, <<2561, 2563>>,
     <<2620, 2620>>, <<2622, 2626>>, <<2631, 2632>>, <<2635, 2637>>,
     <<2641, 2641>>, <<2672, 2673>>, <<2677, 2677>>, <<2689, 2691>>,
     <<2748, 2748>>, <<2750, 2757>>, <<2759, 2761>>, <<2763, 2765>>,
     <<2786, 2787>>, <<2810, 2815>>, <<2817, 2819>>, <<2876, 2876>>,
     <<2878, 2884>>, <<2887, 2888>>, <<2891, 2893>>, <<2901, 2903>>,
     <<2914, 2915>>, <<2946, 2946>>, <<3006, 3010>>, <<3014, 3016>>,
     <<3018, 3021>>, <<3031, 3031>>, <<3072, 3076>>, <<3132, 3132>>,
     <<3134, 3140>>, <<3142, 3144>>, <<3146, 3149>>, <<3157, 3158>>,
     <<3170, 3171>>, <<3201, 3203>>, <<3260, 3260>>, <<3262, 3268>>,
     <<3270, 3272>>, <<3274, 3277>>, <<3285, 3286>>, <<3298, 3299>>,
     <<3328, 3331>>, <<3387, 3388>>, <<3390, 3396>>, <<3398, 3400>>,
     <<3402, 3405>>, <<3415, 3415>>, <<3426, 3427>>, <<3457, 3459>>,
     <<3530, 3530>>, <<3535, 3540>>, <<3542, 3542>>, <<3544, 3551>>,
     <<3570, 3571>>, <<3633, 3633>>, <<3636, 3642>>, <<3655, 3662>>,
     <<3761, 3761>>, <<3764, 3772>>, <<3784, 3789>>, <<3864, 3865>>,
     <<3893, 3893>>, <<3895, 3895>>, <<3897, 3897>>, <<3902, 3903>>,
     <<3953, 3972>>, <<3974, 3975>>, <<3981, 3991>>, <<3993, 4028>>,
     <<4038, 4038>>, <<4139, 4158>>, <<4182, 4185>>, <<4190, 4192>>,
     <<4194, 4196>>, <<4199, 4205>>, <<4209, 4212>>, <<4226, 4237>>,
     <<4239, 4239>>, <<4250, 4253>>, <<4957, 4959>>, <<5906, 5909>>,
     <<5938, 5940>>, <<5970, 5971>>, <<6002, 6003>>, <<6068, 6099>>,
     <<6109, 6109>>, <<6155, 6157>>, <<6159, 6159>>, <<6277, 6278>>,
     <<6313, 6313>>, <<6432, 6443>>, <<6448, 6459>>, <<6679, 6683>>,
     <<6741, 6750>>, <<6752, 6780>>, <<6783, 6783>>, <<6832, 6862>>,
     <<6912, 6916>>, <<6964, 6980>>, <<7019, 7027>>, <<7040, 7042>>,
     <<7073, 7085>>, <<7142, 7155>>, <<7204, 7223>>, <<7376, 7378>>,
     <<7380, 7400>>, <<7405, 7405>>, <<7412, 7412>>, <<7415, 7417>>,
     <<7616, 7679>>, <<8400, 8432>>, <<11503, 11505>>, <<11647, 11647>>,
     <<11744, 11775>>, <<12330, 12335>>, <<12441, 12442>>, <<42607, 42610>>,
     <<42612, 42621>>, <<42654, 42655>>, <<42736, 42737>>, <<43010, 43010>>,
     <<43014, 43014>>, <<43019, 43019>>, <<43043, 43047>>, <<43052, 43052>>,
     <<43136, 43137>>, <<43188, 43205>>, <<43232, 43249>>, <<43263, 43263>>,
     <<43302, 43309>>, <<43335, 43347>>, <<43392, 43395>>, <<43443, 43456>>,
     <<43493, 43493>>, <<43561, 43574>>, <<43587, 43587>>, <<43596, 43597>>,
     <<43643, 43645>>, <<43696, 43696>>, <<43698, 43700>>, <<43703, 43704>>,
     <<43710, 43711>>, <<43713, 43713>>, <<43755, 43759>>, <<43765, 43766>>,
     <<44003, 44010>>, <<44012, 44013>>, <<64286, 64286>>, <<65024, 65039>>,
     <<65056, 65071>>, <<66045, 66045>>, <<66272, 66272>>, <<66422, 66426>>,
     <<68097, 68099>>, <<68101, 68102>>, <<68108, 68111>>, <<68152, 68154>>,
     <<68159, 68159>>, <<68325, 68326>>, <<68900, 68903>>, <<69291, 69292>>,
     <<69446, 69456>>, <<69506, 69509>>, <<69632, 69634>>, <<69688, 69702>>,
     <<69744, 69744>>, <<69747, 69748>>, <<69759, 69762>>, <<69808, 69818>>,
     <<69826, 69826>>, <<69888, 69890>>, <<69927, 69940>>, <<69957, 69958>>,
     <<70003, 70003>>, <<70016, 70018>>, <<70067, 70080>>, <<70089, 70092>>,
     <<70094, 70095>>, <<70188, 70199>>, <<70206, 70206>>, <<70367, 70378>>,
     <<70400, 70403>>, <<70459, 70460>>, <<70462, 70468>>, <<70471, 70472>>,
     <<70475, 70477>>, <<70487, 70487>>, <<70498, 70499>>, <<70502, 70508>>,
     <<70512, 70516>>, <<70709, 70726>>, <<70750, 70750>>, <<70832, 70851>>,
     <<71087, 71093>>, <<71096, 71104>>, <<71132, 71133>>, <<71216, 71232>>,
     <<71339, 71351>>, <<71453, 71467>>, <<71724, 71738>>, <<71984, 71989>>,
     <<71991, 71992>>, <<71995, 71998>>, <<72000, 72000>>, <<72002, 72003>>,
     <<72145, 72151>>, <<72154, 72160>>, <<72164, 72164>>, <<72193, 72202>>,
     <<72243, 72249>>, <<72251, 72254>>, <<72263, 72263>>, <<72273, 72283>>,
     <<72330, 72345>>, <<72751, 72758>>, <<72760, 72767>>, <<72850, 72871>>,
     <<72873, 72886>>, <<73009, 73014>>, <<73018, 73018>>, <<73020, 73021>>,
     <<73023, 73029>>, <<73031, 73031>>, <<73098, 73102>>, <<73104, 73105>>,
     <<73107, 73111>>, <<73459, 73462>>, <<92912, 92916>>, <<92976, 92982>>,
     <<94031, 94031>>, <<94033, 94087>>, <<94095, 94098>>, <<94180, 94180>>,
     <<94192, 94193>>, <<113821, 113822>>, <<118528, 118573>>,
     <<118576, 118598>>, <<119141, 119145>>, <<119149, 119154>>,
     <<119163, 119170>>, <<119173, 119179>>, <<119210, 119213>>,
     <<119362, 119364>>, <<121344, 121398>>, <<121403, 121452>>,
     <<121461, 121461>>, <<121476, 121476>>, <<121499, 121503>>,
     <<121505, 121519>>, <<122880, 122886>>, <<122888, 122904>>,
     <<122907, 122913>>, <<122915, 122916>>, <<122918, 122922>>,
     <<123184, 123190>>, <<123566, 123566>>, <<123628, 123631>>,
     <<125136, 125142>>, <<125252, 125258>>, <<917760, 917999>>}

\* Characters that Unicode normalisation form C may change or combine: a
\* non-zero combining class, not allowed in NFC, or the second character
\* of a composition.
NfcActiveRanges ==
    {<<768, 846>>, <<848, 879>>, <<884, 884>>, <<894, 894>>, <<903, 903>>,
     <<1155, 1159>>, <<1425, 1469>>, <<1471, 1471>>, <<1473, 1474>>,
     <<1476, 1477>>, <<1479, 1479>>, <<1552, 1562>>, <<1611, 1631>>,
     <<1648, 1648>>, <<1750, 1756>>, <<1759, 1764>>, <<1767, 1768>>,
     <<1770, 1773>>, <<1809, 1809>>, <<1840, 1866>>, <<2027, 2035>>,
     <<2045, 2045>>, <<2070, 2073>>, <<2075, 2083>>, <<2085, 2087>>,
     <<2089, 2093>>, <<2137, 2139>>, <<2200, 2207>>, <<2250, 2273>>,
     <<2275, 2303>>, <<2364, 2364>>, <<2381, 2381>>, <<2385, 2388>>,
     <<2392, 2399>>, <<2492, 2492>>, <<2494, 2494>>, <<2509, 2509>>,
     <<2519, 2519>>, <<2524, 2525>>, <<2527, 2527>>, <<2558, 2558>>,
     <<2611, 2611>>, <<2614, 2614>>, <<2620, 2620>>, <<2637, 2637>>,
     <<2649, 2651>>, <<2654, 2654>>, <<2748, 2748>>, <<2765, 2765>>,
     <<2876, 2876>>, <<2878, 2878>>, <<2893, 2893>>, <<2902, 2903>>,
     <<2908, 2909>>, <<3006, 3006>>, <<3021, 3021>>, <<3031, 3031>>,
     <<3132, 3132>>, <<3149, 3149>>, <<3157, 3158>>, <<3260, 3260>>,
     <<3266, 3266>>, <<3277, 3277>>, <<3285, 3286>>, <<3387, 3388>>,
     <<3390, 3390>>, <<3405, 3405>>, <<3415, 3415>>, <<3530, 3530>>,
     <<3535, 3535>>, <<3551, 3551>>, <<3640, 3642>>, <<3656, 3659>>,
     <<3768, 3770>>, <<3784, 3787>>, <<3864, 3865>>, <<3893, 3893>>,
     <<3895, 3895>>, <<3897, 3897>>, <<3907, 3907>>, <<3917, 3917>>,
     <<3922, 3922>>, <<3927, 3927>>, <<3932, 3932>>, <<3945, 3945>>,
     <<3953, 3958>>, <<3960, 3960>>, <<3962, 3965>>, <<3968, 3972>>,
     <<3974, 3975>>, <<3987, 3987>>, <<3997, 3997>>, <<4002, 4002>>,
     <<4007, 4007>>, <<4012, 4012>>, <<4025, 4025>>, <<4038, 4038>>,
     <<4142, 4142>>, <<4151, 4151>>, <<4153, 4154>>, <<4237, 4237>>,
     <<4449, 4469>>, <<4520, 4546>>, <<4957, 4959>>, <<5908, 5909>>,
     <<5940, 5940>>, <<6098, 6098>>, <<6109, 6109>>, <<6313, 6313>>,
     <<6457, 6459>>, <<6679, 6680>>, <<6752, 6752>>, <<6773, 6780>>,
     <<6783, 6783>>, <<6832, 6845>>, <<6847, 6862>>, <<6964, 6965>>,
     <<6980, 6980>>, <<7019, 7027>>, <<7082, 7083>>, <<7142, 7142>>,
     <<7154, 7155>>, <<7223, 7223>>, <<7376, 7378>>, <<7380, 7392>>,
     <<7394, 7400>>, <<7405, 7405>>, <<7412, 7412>>, <<7416, 7417>>,
     <<7616, 7679>>, <<8049, 8049>>, <<8051, 8051>>, <<8053, 8053>>,
     <<8055, 8055>>, <<8057, 8057>>, <<8059, 8059>>, <<8061, 8061>>,
     <<8123, 8123>>, <<8126, 8126>>, <<8137, 8137>>, <<8139, 8139>>,
     <<8147, 8147>>, <<8155, 8155>>, <<8163, 8163>>, <<8171, 8171>>,
     <<8174, 8175>>, <<8185, 8185>>, <<8187, 8187>>, <<8189, 8189>>,
     <<8192, 8193>>, <<8400, 8412>>, <<8417, 8417>>, <<8421, 8432>>,
     <<8486, 8486>>, <<8490, 8491>>, <<9001, 9002>>, <<10972, 10972>>,
     <<11503, 11505>>, <<11647, 11647>>, <<11744, 11775>>, <<12330, 12335>>,
     <<12441, 12442>>, <<42607, 42607>>, <<42612, 42621>>, <<42654, 42655>>,
     <<42736, 42737>>, <<43014, 43014>>, <<43052, 43052>>, <<43204, 43204>>,
     <<43232, 43249>>, <<43307, 43309>>, <<43347, 43347>>, <<43443, 43443>>,
     <<43456, 43456>>, <<43696, 43696>>, <<43698, 43700>>, <<43703, 43704>>,
     <<43710, 43711>>, <<43713, 43713>>, <<43766, 43766>>, <<44013, 44013>>,
     <<63744, 64013>>, <<64016, 64016>>, <<64018, 64018>>, <<64021, 64030>>,
     <<64032, 64032>>, <<64034, 64034>>, <<64037, 64038>>, <<64042, 64109>>,
     <<64112, 64217>>, <<64285, 64287>>, <<64298, 64310>>, <<64312, 64316>>,
     <<64318, 64318>>, <<64320, 64321>>, <<64323, 64324>>, <<64326, 64334>>,
     <<65056, 65071>>, <<66045, 66045>>, <<66272, 66272>>, <<66422, 66426>>,
     <<68109, 68109>>, <<68111, 68111>>, <<68152, 68154>>, <<68159, 68159>>,
     <<68325, 68326>>, <<68900, 68903>>, <<69291, 69292>>, <<69446, 69456>>,
     <<69506, 69509>>, <<69702, 69702>>, <<69744, 69744>>, <<69759, 69759>>,
     <<69817, 69818>>, <<69888, 69890>>, <<69927, 69927>>, <<69939, 69940>>,
     <<70003, 70003>>, <<70080, 70080>>, <<70090, 70090>>, <<70197, 70198>>,
     <<70377, 70378>>, <<70459, 70460>>, <<70462, 70462>>, <<70477, 70477>>,
     <<70487, 70487>>, <<70502, 70508>>, <<70512, 70516>>, <<70722, 70722>>,
     <<70726, 70726>>, <<70750, 70750>>, <<70832, 70832>>, <<70842, 70842>>,
     <<70845, 70845>>, <<70850, 70851>>, <<71087, 71087>>, <<71103, 71104>>,
     <<71231, 71231>>, <<71350, 71351>>, <<71467, 71467>>, <<71737, 71738>>,
     <<71984, 71984>>, <<71997, 71998>>, <<72003, 72003>>, <<72160, 72160>>,
     <<72244, 72244>>, <<72263, 72263>>, <<72345, 72345>>, <<72767, 72767>>,
     <<73026, 73026>>, <<73028, 73029>>, <<73111, 73111>>, <<92912, 92916>>,
     <<92976, 92982>>, <<94192, 94193>>, <<113822, 113822>>,
     <<119134, 119145>>, <<119149, 119154>>, <<119163, 119170>>,
     <<119173, 119179>>, <<119210, 119213>>, <<119227, 119232>>,
     <<119362, 119364>>, <<122880, 122886>>, <<122888, 122904>>,
     <<122907, 122913>>, <<122915, 122916>>, <<122918, 122922>>,
     <<123184, 123190>>, <<123566, 123566>>, <<123628, 123631>>,
     <<125136, 125142>>, <<125252, 125258>>, <<194560, 195101>>}

-----------------------------------------------------------------------------
(* EmailStr: pydantic's validate_email unwraps the display-name form       *)
(* `Name <addr>`, strips surrounding whitespace, validates with            *)
(* email-validator and keeps the normalised address.                       *)

\* What str.strip() and the regex class \s take for whitespace: U+0009..
\* U+000D, U+001C..U+0020, U+0085, U+00A0, U+1680, U+2000..U+200A, U+2028,
\* U+2029, U+202F, U+205F, U+3000.
Whitespace ==
    (9..13) \cup (28..32) \cup {133, 160, 5760} \cup (8192..8202)
        \cup {8232, 8233, 8239, 8287, 12288}

NonSpace(s) == {i \in 1..Len(s) : s[i] \notin Whitespace}

Strip(s) ==
    LET kept == NonSpace(s)
    IN  IF kept = {} THEN <<>>
        ELSE SubSeq(s, CHOOSE i \in kept : \A j \in kept : i <= j,
                       CHOOSE i \in kept : \A j \in kept : j <= i)

RStrip(s) ==
    LET kept == NonSpace(s)
    IN  IF kept = {} THEN <<>>
        ELSE SubSeq(s, 1, CHOOSE i \in kept : \A j \in kept : j <= i)

\* The ASCII characters !#$%&'*+-/=?^_`{|}~ with the ASCII letters and
\* digits: email-validator's atext, and the ASCII part of name_chars.
Atext ==
    Letters \cup Digits \cup
    {33, 35, 36, 37, 38, 39, 42, 43, 45, 47, 61, 63, 94, 95, 96, 123, 124,
     125, 126}

\* name_chars, [\w!#$%&'*+\-/=?^_`{|}~]: a character of an unquoted display
\* name.
NameChars(c) == IF c < 128 THEN c \in Atext ELSE InRanges(c, WordRanges)

\* (?:name_chars+\s+)*name_chars+
UnquotedName(n) ==
    /\ n # <<>>
    /\ \A i \in 1..Len(n) :
          NameChars(n[i]) \/ (n[i] \in Whitespace /\ 1 < i /\ i < Len(n))

\* A quoted display name, "((?:[^"]|\")+)": any non-empty text between an
\* opening and a closing quote, further quotes included.
QuotedName(n) ==
    /\ Len(n) >= 3
    /\ n[1] = Quote
    /\ n[Len(n)] = Quote

\* The text before the `<`: nothing, or a name, then optional whitespace.
NameOk(pre) ==
    LET n == RStrip(pre)
    IN  n = <<>> \/ UnquotedName(n) \/ QuotedName(n)

\* Where the `<` of `name <addr>` may stand in the stripped text t: the
\* text ends with `>`, the bracketed part is non-empty and has no line feed.
\* The quoted name is matched greedily, so the last such place is taken.
PrettyCuts(t) ==
    {i \in 1..Len(t) :
        /\ t[i] = LessThan
        /\ t[Len(t)] = GreaterThan
        /\ i + 1 <= Len(t) - 1
        /\ \A j \in (i + 1)..(Len(t) - 1) : t[j] # LineFeed
        /\ NameOk(SubSeq(t, 1, i - 1))}

\* The text itself when no `<` may be cut at, else the part between the
\* last cut and the closing `>`, stripped.
Bracketed(t, cuts) ==
    IF cuts = {} THEN t
    ELSE Strip(SubSeq(t, (CHOOSE i \in cuts : \A j \in cuts : j <= i) + 1,
                      Len(t) - 1))

Unwrap(t) == Bracketed(t, PrettyCuts(t))

\* The address handed to email-validator.
Address(raw) == Unwrap(Strip(raw))

AtPositions(s) == {i \in 1..Len(s) : s[i] = At}

DotsWellPlaced(s) ==
    /\ Len(s) >= 1
    /\ s[1] # Dot
    /\ s[Len(s)] # Dot
    /\ \A i \in 1..(Len(s) - 1) : ~(s[i] = Dot /\ s[i + 1] = Dot)

AtextOrDot == Atext \cup {Dot}

\* email-validator: a character of the local part is atext or a dot, or,
\* from U+0080 on, a letter, number, punctuation mark or symbol, or a
\* combining mark that is not the first character.
LocalChars(l, i) ==
    IF l[i] < 128 THEN l[i] \in AtextOrDot
    ELSE InRanges(l[i], SafeRanges) \/ (i > 1 /\ InRanges(l[i], MarkRanges))

\* The local part is a dot-atom.
LocalPartSyntax(l) ==
    /\ DotsWellPlaced(l)
    /\ \A i \in 1..Len(l) : LocalChars(l, i)

\* The ASCII characters of a host name.
HostnameChars == Letters \cup Digits \cup {Hyphen, Dot}

\* The characters email-validator lets into a domain before it looks at
\* its labels.
DomainChars(c) == c \in HostnameChars \/ c >= 128

\* Domain names reserved for special use, which email-validator refuses.
SpecialUseDomains ==
    {Text(<<"a","r","p","a">>), Text(<<"i","n","v","a","l","i","d">>),
     Text(<<"l","o","c","a","l">>),
     Text(<<"l","o","c","a","l","h","o","s","t">>),
     Text(<<"o","n","i","o","n">>), Text(<<"t","e","s","t">>)}

EndsWith(s, suffix) ==
    /\ Len(suffix) <= Len(s)
    /\ SubSeq(s, Len(s) - Len(suffix) + 1, Len(s)) = suffix

\* Where the labels of a domain start.
LabelStarts(d) == {i \in 1..Len(d) : d[i] # Dot /\ (i = 1 \/ d[i - 1] = Dot)}

\* A Punycode label, xn--..., which IDNA decodes to Unicode.
PunycodeLabelAt(d, i) ==
    /\ i + 3 <= Len(d)
    /\ LowerChar(d[i]) = LowerX
    /\ LowerChar(d[i + 1]) = LowerN
    /\ d[i + 2] = Hyphen
    /\ d[i + 3] = Hyphen

\* A label with two hyphens in third and fourth place that is not Punycode.
ReservedLabelAt(d, i) ==
    /\ i + 3 <= Len(d)
    /\ d[i + 1] # Dot
    /\ d[i + 2] = Hyphen
    /\ d[i + 3] = Hyphen
    /\ ~PunycodeLabelAt(d, i)

\* A domain of ASCII letters, digits, hyphens and dots without Punycode
\* labels.
ValidDomain(d) ==
    /\ DotsWellPlaced(d)
    /\ \A i \in 1..Len(d) : d[i] \in HostnameChars
    /\ \E i \in 1..Len(d) : d[i] = Dot
    /\ d[1] # Hyphen
    /\ d[Len(d)] # Hyphen
    /\ \A i \in 1..(Len(d) - 1) :
          /\ ~(d[i] = Hyphen /\ d[i + 1] = Dot)
          /\ ~(d[i] = Dot /\ d[i + 1] = Hyphen)
    /\ Len(d) <= 253
    /\ \A i \in 1..(Len(d) - 63) : \E j \in i..(i + 63) : d[j] = Dot
    /\ d[Len(d)] \in Letters
    /\ \A i \in LabelStarts(d) : ~ReservedLabelAt(d, i)
    /\ LET low == ToLower(d)
       IN  \A sp \in SpecialUseDomains :
               low # sp /\ ~EndsWith(low, <<Dot>> \o sp)

\* The length of a text in UTF-8: one byte for a character, and one more
\* from each of U+0080, U+0800 and U+10000 on.
Utf8Len(s) ==
    Len(s) + Cardinality({i \in 1..Len(s) : s[i] >= 128})
           + Cardinality({i \in 1..Len(s) : s[i] >= 2048})
           + Cardinality({i \in 1..Len(s) : s[i] >= 65536})

\* An address that email-validator normalises beyond lower-casing the
\* ASCII letters of its domain: the local part goes through Unicode
\* normalisation form C, a domain with characters from U+0080 on or with
\* Punycode labels through IDNA (UTS-46 mapping, IDNA 2008 validity,
\* decoding to Unicode).  Those conversions are not computed here.
Internationalised(l, d) ==
    \/ \E i \in 1..Len(l) : l[i] >= 128 /\ InRanges(l[i], NfcActiveRanges)
    \/ \E i \in 1..Len(d) : d[i] >= 128
    \/ \E i \in LabelStarts(d) : PunycodeLabelAt(d, i)

\* The verdict on an e-mail that is refused.
Rejected == <<-2>>

\* The normal form of an internationalised address, left uncomputed.
Uncomputed(s) == <<-3>> \o s

\* The part of an address before its "@", and the part after it.
LocalPart(s) == SubSeq(s, 1, (CHOOSE i \in AtPositions(s) : TRUE) - 1)

DomainPart(s) == SubSeq(s, (CHOOSE i \in AtPositions(s) : TRUE) + 1, Len(s))

\* What email-validator makes of the address s with local part l and
\* domain d: Rejected, or the normalised address.  There is one outcome,
\* except for an internationalised address that passes the checks made
\* before normalisation: whether IDNA accepts it, and its normal form, are
\* left open.
PartsOutcomes(s, l, d) ==
    IF \/ ~LocalPartSyntax(l)
       \/ d = <<>>
       \/ \E i \in 1..Len(d) : ~DomainChars(d[i])
    THEN {Rejected}
    ELSE IF Internationalised(l, d)
    THEN {Rejected, Uncomputed(s)}
    ELSE IF /\ Len(l) <= 64
            /\ ValidDomain(d)
            /\ Len(s) <= 254
            /\ Utf8Len(s) <= 254
    THEN {l \o <<At>> \o ToLower(d)}
    ELSE {Rejected}

\* An address has exactly one "@".
AddressOutcomes(s) ==
    IF Cardinality(AtPositions(s)) # 1 THEN {Rejected}
    ELSE PartsOutcomes(s, LocalPart(s), DomainPart(s))

\* What validate_email can make of the text of an e-mail field.
EmailOutcomes(raw) ==
    IF Len(raw) > 2048 THEN {Rejected} ELSE AddressOutcomes(Address(raw))

\* validate_email can accept the text.
ValidEmail(raw) == EmailOutcomes(raw) # {Rejected}

\* The address validate_email returns when it accepts the text.
NormalizeEmail(raw) == CHOOSE e \in EmailOutcomes(raw) \ {Rejected} : TRUE

-----------------------------------------------------------------------------
(* ContactBase / ContactCreate / ContactUpdate                             *)

Required == {"first_name", "last_name", "email", "phone_number"}
Fields == Required \cup {"address"}

\* A request body is a function from the keys its JSON object carries to
\* their values.  It validates when every required field is present and a
\* string, the e-mail is accepted, and address (if given) is a string or
\* null.  A plain `str` field accepts the empty string; keys that are no
\* field of the schema are ignored.
RequiredPresent(body) == \A k \in Required : k \in DOMAIN body /\ body[k] # Null

\* The body can pass validation.
Validates(body) == RequiredPresent(body) /\ ValidEmail(body["email"])

\* The body can fail validation.  Rejects(body) is ~Validates(body), except
\* for a body with an internationalised e-mail, where both can be.
Rejects(body) ==
    ~RequiredPresent(body) \/ Rejected \in EmailOutcomes(body["email"])

\* What validation can find: TRUE when the body can pass, FALSE when it can
\* fail.
OutcomeVerdicts(outcomes) ==
    {v \in BOOLEAN : IF v THEN outcomes # {Rejected} ELSE Rejected \in outcomes}

Verdicts(body) ==
    IF ~RequiredPresent(body) THEN {FALSE}
    ELSE OutcomeVerdicts(EmailOutcomes(body["email"]))

\* The validated model: the fields that were set, e-mail normalised.
Parsed(body) ==
    [k \in DOMAIN body \cap Fields |->
        IF k = "email" THEN NormalizeEmail(body[k]) ELSE body[k]]

\* contact.model_dump(): every field, address defaulting to None.
ModelDump(body) ==
    LET parsed == Parsed(body)
    IN  [k \in Fields |-> IF k \in DOMAIN body THEN parsed[k] ELSE Null]

\* contact_update.model_dump(exclude_unset=True): only the fields set.
ModelDumpExcludeUnset(body) == Parsed(body)

-----------------------------------------------------------------------------
(* Column.ilike(f"%{search}%"): case-insensitive SQL LIKE.  In the pattern *)
(* % matches any run of characters, _ any one character, and a backslash   *)
(* makes the next character literal (PostgreSQL's default escape).  Case   *)
(* is folded for the ASCII letters.                                        *)

RECURSIVE LikeMatch(_, _)
LikeMatch(p, t) ==
    IF p = <<>> THEN t = <<>>
    ELSE IF Head(p) = Percent
         THEN LikeMatch(Tail(p), t) \/ (t # <<>> /\ LikeMatch(p, Tail(t)))
    ELSE IF Head(p) = Underscore
         THEN t # <<>> /\ LikeMatch(Tail(p), Tail(t))
    ELSE IF Head(p) = Backslash /\ Len(p) >= 2
         THEN t # <<>> /\ Head(t) = p[2] /\ LikeMatch(Tail(Tail(p)), Tail(t))
    ELSE t # <<>> /\ Head(t) = Head(p) /\ LikeMatch(Tail(p), Tail(t))

ILike(text, pattern) == LikeMatch(ToLower(pattern), ToLower(text))

ContainsPattern(search) == <<Percent>> \o search \o <<Percent>>

\* `if search:` -- None and the empty string add no WHERE clause.
SearchGiven(search) == search # Null /\ search # <<>>

RowMatches(row, search) ==
    \/ ILike(row.first_name, ContainsPattern(search))
    \/ ILike(row.last_name, ContainsPattern(search))
    \/ ILike(row.email, ContainsPattern(search))

-----------------------------------------------------------------------------
(* Rows, sessions and the history record *)

NoRow == [id |-> 0]
NoBody == [k \in {} |-> Null]

\* Contact(**contact.model_dump()) once the INSERT has given it its id.
Contact(id, dump) ==
    [k \in Fields \cup {"id"} |-> IF k = "id" THEN id ELSE dump[k]]

\* The id column's sequence: each INSERT takes the next value, and a value
\* once taken is never handed out again.
NewId(n) == n
AdvanceId(n) == n + 1

InsertRow(st, row) ==
    [k \in DOMAIN st \cup {row.id} |-> IF k = row.id THEN row ELSE st[k]]

DeleteRow(st, id) == [k \in DOMAIN st \ {id} |-> st[k]]

\* select(Contact).where(Contact.id == contact_id) ... scalar_one_or_none()
ScalarFirst(st, contact_id) ==
    IF DOMAIN st = {} THEN NoRow
    ELSE st[CHOOSE k \in DOMAIN st : \A j \in DOMAIN st : k <= j]

ScalarOneOrNone(st, contact_id) ==
    IF contact_id \in DOMAIN st THEN st[contact_id] ELSE NoRow

RECURSIVE Without(_, _)
Without(h, id) ==
    IF h = <<>> THEN <<>>
    ELSE IF Head(h) = id THEN Without(Tail(h), id)
    ELSE <<Head(h)>> \o Without(Tail(h), id)

\* No handler orders its SELECT, so the table's scan order is what the
\* datastore makes of its writes.  A new row is scanned after the others;
\* an UPDATE either rewrites the row where it lies or writes a new row
\* version behind the others (PostgreSQL).
UpdatePlacements(h, id) == {h, Append(Without(h, id), id)}

\* setattr(contact, key, value) for each item of update_data
SetAttrs(contact, data) ==
    [k \in DOMAIN contact |-> IF k \in DOMAIN data THEN data[k] ELSE contact[k]]

\* The unit of work at commit: a column goes into the UPDATE only when the
\* value set differs from the value this session loaded.
Dirty(contact, data) == {k \in DOMAIN data : data[k] # contact[k]}

\* db.commit() of an update: UPDATE contacts SET <dirty columns> WHERE id = ?
CommitUpsert(st, contact, data) ==
    InsertRow(st, SetAttrs(contact, data))

CommitUpdate(st, contact, data) ==
    IF Dirty(contact, data) = {} \/ contact.id \notin DOMAIN st THEN st
    ELSE [st EXCEPT ![contact.id] =
             [k \in DOMAIN @ |->
                 IF k \in Dirty(contact, data)
                 THEN SetAttrs(contact, data)[k] ELSE @[k]]]

\* db.refresh(obj): re-read the row of the object's id; it fails when the
\* row is gone.
Refresh(st, id) == IF id \in DOMAIN st THEN st[id] ELSE NoRow

Sessions == {"s1", "s2"}

\* A request between two awaits: where it stands (pc), the contact_id and
\* body it was sent, the object its session holds.  `raced` marks an update
\* that has SELECTed and not yet committed while another update of the same
\* id committed.
Idle == [pc |-> "idle", id |-> 0, body |-> NoBody, obj |-> NoRow, raced |-> FALSE]

InFlight(pc, id, body, obj) ==
    [pc |-> pc, id |-> id, body |-> body, obj |-> obj, raced |-> FALSE]

Quiet == \A s \in Sessions : sess[s].pc = "idle"

\* The response a step delivers.  `after` marks a get that directly follows
\* the successful create of its id; `raced` is the session's mark.
Done(op, id, body, status, row) ==
    [op |-> op, id |-> id, body |-> body, skip |-> 0, limit |-> 0,
     search |-> Null, status |-> status, row |-> row, rows |-> <<>>,
     after |-> FALSE, raced |-> FALSE]

\* A step that delivers no response.
NoResponse == Done("none", 0, NoBody, "ok", NoRow)

-----------------------------------------------------------------------------
(* Requests the clients send *)

BodyFoo ==
    [first_name |-> Text(<<"F","o","o">>), last_name |-> Text(<<"B">>),
     email |-> Text(<<"f","@","y",".","c","o">>), phone_number |-> Text(<<"1">>)]
BodyNamed ==
    [first_name |-> Text(<<"F","o","o">>), last_name |-> Text(<<"B">>),
     email |-> Text(<<"T">>) \o <<233>>
                   \o Text(<<" ","<","f","@","y",".","c","o",">">>) \o <<5760>>,
     phone_number |-> Text(<<"1">>)]
BodyXoo ==
    [first_name |-> Text(<<"A">>), last_name |-> Text(<<"B">>),
     email |-> Text(<<"x","o","o","@","Y",".","c","o">>), phone_number |-> Text(<<"1">>),
     address |-> Text(<<"Z","o","o">>)]
BodyBlank ==
    [first_name |-> <<>>, last_name |-> Text(<<"B">>),
     email |-> Text(<<"a","@","y",".","c","o">>), phone_number |-> Text(<<"1">>),
     address |-> Null]
BodyPartial == [first_name |-> Text(<<"Z">>)]
BodyBadEmail ==
    [first_name |-> Text(<<"A">>), last_name |-> Text(<<"B">>),
     email |-> Text(<<"a","b">>), phone_number |-> Text(<<"1">>)]

SeqBodies == {BodyFoo, BodyNamed, BodyXoo, BodyBlank, BodyPartial, BodyBadEmail}

BodyP ==
    [first_name |-> Text(<<"A">>), last_name |-> Text(<<"B">>),
     email |-> Text(<<"a","@","y",".","c","o">>), phone_number |-> Text(<<"1">>)]
BodyQ ==
    [first_name |-> Text(<<"Z">>), last_name |-> Text(<<"B">>),
     email |-> Text(<<"a","@","y",".","c","o">>), phone_number |-> Text(<<"1">>)]

ConcBodies == {BodyP, BodyQ}

\* An e-mail whose domain goes through IDNA: a@\u00fc.co
BodyIntl ==
    [first_name |-> Text(<<"A">>), last_name |-> Text(<<"B">>),
     email |-> Text(<<"a","@">>) \o <<252>> \o Text(<<".","c","o">>),
     phone_number |-> Text(<<"1">>)]

IntlBodies == SeqBodies \cup {BodyIntl}

Skips == DefaultSkip..MaxSkip
Limits == {1, DefaultLimit}
Searches == {Null, <<>>, Text(<<"o","o">>), Text(<<"O","O">>), Text(<<"_">>)}

-----------------------------------------------------------------------------
(* State after start-up: an empty table, no request in flight *)

Init ==
    /\ store = [k \in {} |-> NoRow]
    /\ heap = <<>>
    /\ nextId = 1
    /\ sess = [s \in Sessions |-> Idle]
    /\ last = NoResponse
    /\ issued = <<>>
    /\ removed = {}

-----------------------------------------------------------------------------
(* Each action is one handler from one await to the next: the datastore    *)
(* runs one statement or one commit, and other requests may run before the *)
(* handler goes on.                                                        *)

(* POST /contacts/ *)

\* Validation of the body, Contact(...), db.add, await db.commit()
create_commit(s, body) ==
    /\ sess[s].pc = "idle"
    /\ \E valid \in Verdicts(body) :
          IF ~valid
          THEN /\ last' = Done("create", 0, body, "validation_error", NoRow)
               /\ UNCHANGED <<store, heap, nextId, sess, issued, removed>>
          ELSE LET new_contact == Contact(NewId(nextId), ModelDump(body))
               IN  /\ store' = InsertRow(store, new_contact)
                   /\ heap' = Append(heap, new_contact.id)
                   /\ nextId' = AdvanceId(nextId)
                   /\ issued' = Append(issued, new_contact.id)
                   /\ sess' = [sess EXCEPT ![s] =
                                  InFlight("inserted", new_contact.id, body,
                                           new_contact)]
                   /\ last' = NoResponse
                   /\ UNCHANGED removed

\* await db.refresh(new_contact); return new_contact
create_refresh(s) ==
    /\ sess[s].pc = "inserted"
    /\ last' = IF Refresh(store, sess[s].id) = NoRow
               THEN Done("create", sess[s].id, sess[s].body, "store_error", NoRow)
               ELSE Done("create", sess[s].id, sess[s].body, "ok",
                         Refresh(store, sess[s].id))
    /\ sess' = [sess EXCEPT ![s] = Idle]
    /\ UNCHANGED <<store, heap, nextId, issued, removed>>

(* GET /contacts/?skip=&limit=&search= *)

Scan(st, h) == [i \in 1..Len(h) |-> st[h[i]]]

Where(rows, search) ==
    IF SearchGiven(search)
    THEN SelectSeq(rows, LAMBDA r : RowMatches(r, search))
    ELSE rows

OffsetLimit(rows, skip, limit) ==
    SubSeq(rows, skip + 1, Min2(Len(rows), skip + limit))

read_contacts(skip, limit, search) ==
    /\ last' = [Done("list", 0, NoBody, "ok", NoRow) EXCEPT
                   !.skip = skip, !.limit = limit, !.search = search,
                   !.rows = OffsetLimit(Where(Scan(store, heap), search),
                                        skip, limit)]
    /\ UNCHANGED <<store, heap, nextId, sess, issued, removed>>

(* GET /contacts/{contact_id} *)

read_contact(contact_id) ==
    LET contact == ScalarOneOrNone(store, contact_id)
    IN  /\ last' = [Done("get", contact_id, NoBody,
                         IF contact = NoRow THEN "not_found" ELSE "ok",
                         contact)
                      EXCEPT !.after = /\ last.op = "create"
                                       /\ last.status = "ok"
                                       /\ last.id = contact_id]
        /\ UNCHANGED <<store, heap, nextId, sess, issued, removed>>

(* PUT /contacts/{contact_id} *)

\* Validation of the body, await db.execute(query), the 404
update_select(s, contact_id, body) ==
    /\ sess[s].pc = "idle"
    /\ \E valid \in Verdicts(body) :
          IF ~valid
          THEN /\ last' = Done("update", contact_id, body, "validation_error",
                               NoRow)
               /\ UNCHANGED <<store, heap, nextId, sess, issued, removed>>
          ELSE IF ScalarOneOrNone(store, contact_id) = NoRow
          THEN /\ last' = Done("update", contact_id, body, "not_found", NoRow)
               /\ UNCHANGED <<store, heap, nextId, sess, issued, removed>>
          ELSE /\ sess' = [sess EXCEPT ![s] =
                              InFlight("selected_update", contact_id, body,
                                       ScalarOneOrNone(store, contact_id))]
               /\ last' = NoResponse
               /\ UNCHANGED <<store, heap, nextId, issued, removed>>

\* update_data, setattr, await db.commit().  An UPDATE that finds its row
\* gone fails the request; with nothing dirty no UPDATE is sent.
update_commit(s) ==
    LET contact == sess[s].obj
        data == ModelDumpExcludeUnset(sess[s].body)
        present == contact.id \in DOMAIN store
        dirty == Dirty(contact, data) # {}
    IN  /\ sess[s].pc = "selected_update"
        /\ store' = CommitUpdate(store, contact, data)
        /\ heap' \in (IF present /\ dirty
                      THEN UpdatePlacements(heap, contact.id)
                      ELSE {heap})
        /\ IF dirty /\ ~present
           THEN /\ last' = Done("update", sess[s].id, sess[s].body,
                                "store_error", NoRow)
                /\ sess' = [sess EXCEPT ![s] = Idle]
           ELSE /\ last' = NoResponse
                /\ sess' = [t \in Sessions |->
                              IF t = s
                              THEN [sess[s] EXCEPT
                                       !.pc = "committed_update",
                                       !.obj = SetAttrs(contact, data)]
                              ELSE IF /\ sess[t].pc = "selected_update"
                                      /\ sess[t].id = sess[s].id
                                      /\ present
                                   THEN [sess[t] EXCEPT !.raced = TRUE]
                                   ELSE sess[t]]
        /\ UNCHANGED <<nextId, issued, removed>>

\* await db.refresh(contact); return contact
update_refresh(s) ==
    /\ sess[s].pc = "committed_update"
    /\ last' = IF Refresh(store, sess[s].id) = NoRow
               THEN Done("update", sess[s].id, sess[s].body, "store_error", NoRow)
               ELSE [Done("update", sess[s].id, sess[s].body, "ok",
                          Refresh(store, sess[s].id))
                       EXCEPT !.raced = sess[s].raced]
    /\ sess' = [sess EXCEPT ![s] = Idle]
    /\ UNCHANGED <<store, heap, nextId, issued, removed>>

(* DELETE /contacts/{contact_id} *)

\* await db.execute(query), the 404 -- without the 404
delete_select_unchecked(s, contact_id) ==
    /\ sess[s].pc = "idle"
    /\ sess' = [sess EXCEPT ![s] =
                   InFlight("selected_delete", contact_id, NoBody,
                            IF contact_id \in DOMAIN store
                            THEN store[contact_id]
                            ELSE [NoRow EXCEPT !.id = contact_id])]
    /\ last' = NoResponse
    /\ UNCHANGED <<store, heap, nextId, issued, removed>>

\* await db.execute(query), the 404
delete_select(s, contact_id) ==
    /\ sess[s].pc = "idle"
    /\ IF ScalarOneOrNone(store, contact_id) = NoRow
       THEN /\ last' = Done("delete", contact_id, NoBody, "not_found", NoRow)
            /\ UNCHANGED <<store, heap, nextId, sess, issued, removed>>
       ELSE /\ sess' = [sess EXCEPT ![s] =
                           InFlight("selected_delete", contact_id, NoBody,
                                    ScalarOneOrNone(store, contact_id))]
            /\ last' = NoResponse
            /\ UNCHANGED <<store, heap, nextId, issued, removed>>

\* await db.delete(contact); await db.commit(); return contact.  A DELETE
\* that finds its row gone is no error: the contact as loaded is returned.
delete_commit(s) ==
    /\ sess[s].pc = "selected_delete"
    /\ store' = DeleteRow(store, sess[s].obj.id)
    /\ heap' = Without(heap, sess[s].obj.id)
    /\ removed' = removed \cup {sess[s].obj.id}
    /\ last' = Done("delete", sess[s].id, NoBody, "ok", sess[s].obj)
    /\ sess' = [sess EXCEPT ![s] = Idle]
    /\ UNCHANGED <<nextId, issued>>

-----------------------------------------------------------------------------
(* One client, which awaits each response before it sends its next request *)

Client == "s1"

Next ==
    \/ \E body \in SeqBodies :
          /\ Validates(body) => nextId <= MaxContacts
          /\ create_commit(Client, body)
    \/ create_refresh(Client)
    \/ \E skip \in Skips, limit \in Limits, search \in Searches :
          Quiet /\ read_contacts(skip, limit, search)
    \/ \E contact_id \in 1..MaxContacts : Quiet /\ read_contact(contact_id)
    \/ \E contact_id \in 1..MaxContacts, body \in SeqBodies :
          update_select(Client, contact_id, body)
    \/ update_commit(Client)
    \/ update_refresh(Client)
    \/ \E contact_id \in 1..MaxContacts : delete_select(Client, contact_id)
    \/ delete_commit(Client)

Spec == Init /\ [][Next]_vars

\* The same client, sending internationalised e-mails as well
NextIntl ==
    \/ \E body \in IntlBodies :
          /\ Validates(body) => nextId <= MaxContacts
          /\ create_commit(Client, body)
    \/ create_refresh(Client)
    \/ \E contact_id \in 1..MaxContacts : Quiet /\ read_contact(contact_id)
    \/ \E contact_id \in 1..MaxContacts, body \in IntlBodies :
          update_select(Client, contact_id, body)
    \/ update_commit(Client)
    \/ update_refresh(Client)
    \/ \E contact_id \in 1..MaxContacts : delete_select(Client, contact_id)
    \/ delete_commit(Client)

SpecIntl == Init /\ [][NextIntl]_vars

-----------------------------------------------------------------------------
(* Concurrent clients: requests interleave at their awaits *)

NextConc ==
    \/ \E s \in Sessions, body \in ConcBodies :
          /\ nextId <= MaxConcContacts
          /\ create_commit(s, body)
    \/ \E s \in Sessions : create_refresh(s)
    \/ \E contact_id \in 1..MaxConcContacts : read_contact(contact_id)
    \/ \E s \in Sessions, contact_id \in 1..MaxConcContacts, body \in ConcBodies :
          update_select(s, contact_id, body)
    \/ \E s \in Sessions : update_commit(s)
    \/ \E s \in Sessions : update_refresh(s)
    \/ \E s \in Sessions, contact_id \in 1..MaxConcContacts :
          delete_select(s, contact_id)
    \/ \E s \in Sessions : delete_commit(s)

SpecConc == Init /\ [][NextConc]_vars

-----------------------------------------------------------------------------
(* Properties *)

\* C1, as stated: a successful create returns a contact whose id no stored
\* contact has and no earlier create was given, and whose first_name,
\* last_name, email, phone_number equal the input, address being the input
\* address or null when omitted.
C1_CreateReturnsInputUnchanged ==
    [][/\ (sess[Client].pc = "idle" /\ sess'[Client].pc = "inserted") =>
             /\ sess'[Client].id \notin DOMAIN store
             /\ sess'[Client].id \notin Range(issued)
       /\ (last'.op = "create" /\ last'.status = "ok") =>
             LET c == last'.row
                 b == last'.body
             IN  /\ Cardinality({j \in 1..Len(issued') : issued'[j] = c.id}) = 1
                 /\ c.first_name = b.first_name
                 /\ c.last_name = b.last_name
                 /\ c.email = b.email
                 /\ c.phone_number = b.phone_number
                 /\ c.address = IF "address" \in DOMAIN b THEN b.address ELSE Null
      ]_vars

\* C2: a get of the id a successful create has just returned, with no other
\* request in between, succeeds and returns the contact create returned.
C2_GetAfterCreateReturnsSame ==
    [][(/\ last.op = "create"
        /\ last.status = "ok"
        /\ last'.op = "get"
        /\ last'.id = last.row.id)
         => (last'.status = "ok" /\ last'.row = last.row)]_vars

\* A get has followed the create of its id directly, with another contact
\* already stored and another request in flight.
C2_Witness ==
    /\ last.op = "get"
    /\ last.after
    /\ last.status = "ok"
    /\ Cardinality(DOMAIN store) >= 2
    /\ ~Quiet

\* What C3 counts as acceptable changes: each supplied field is well formed.
SuppliedFieldsValid(body) ==
    /\ DOMAIN body # {}
    /\ DOMAIN body \subseteq Fields
    /\ \A k \in DOMAIN body \cap Required : body[k] # Null
    /\ "email" \in DOMAIN body => ValidEmail(body["email"])

\* C3: an update of a stored contact that supplies any subset of the fields
\* succeeds, overwrites the supplied fields and leaves the others as stored.
C3_PartialUpdateMerges ==
    [][/\ (/\ last'.op = "update"
           /\ last'.id \in DOMAIN store
           /\ SuppliedFieldsValid(last'.body))
            => last'.status = "ok"
       /\ (/\ sess[Client].pc = "selected_update"
           /\ sess'[Client].pc = "committed_update")
            => LET id == sess[Client].id
                   body == sess[Client].body
               IN  /\ \A k \in DOMAIN body : store'[id][k] = Parsed(body)[k]
                   /\ \A k \in Fields \ DOMAIN body : store'[id][k] = store[id][k]
      ]_vars

\* C4: once a delete of an id has committed the id is never stored again:
\* a get of it is NotFound, no create is given it, and an update that read
\* the contact before the delete does not bring it back.
C4_DeletedStaysDeleted ==
    /\ removed \cap DOMAIN store = {}
    /\ (last.op = "get" /\ last.id \in removed) => last.status = "not_found"
    /\ \A i \in removed :
          Cardinality({j \in 1..Len(issued) : issued[j] = i}) = 1

\* An update that had read the contact and set a new value committed after
\* the contact's delete, and a later create has run.
C4_Witness ==
    /\ last.op = "update"
    /\ last.status = "store_error"
    /\ last.id \in removed
    /\ \E j \in 1..Len(issued) : issued[j] > last.id

\* Case-insensitive substring, as C5 words the match.
ContainsCI(text, s) ==
    \E i \in 1..(Len(text) - Len(s) + 1) :
        SubSeq(ToLower(text), i, i + Len(s) - 1) = ToLower(s)

SubstringMatch(row, s) ==
    \/ ContainsCI(row.first_name, s)
    \/ ContainsCI(row.last_name, s)
    \/ ContainsCI(row.email, s)

\* C5: list with a non-empty search returns exactly the contacts (after
\* skip/limit) that have the search text as a case-insensitive substring of
\* first_name, last_name or email; an empty or absent search matches all.
C5_SearchIsSubstringMatch ==
    last.op = "list" =>
        last.rows =
            OffsetLimit(
                IF SearchGiven(last.search)
                THEN SelectSeq(Scan(store, heap),
                               LAMBDA r : SubstringMatch(r, last.search))
                ELSE Scan(store, heap),
                last.skip, last.limit)

\* The stored contacts in the order they were created.
CreationOrder(st) == Scan(st, SelectSeq(issued, LAMBDA i : i \in DOMAIN st))

\* C6: list returns the slice [skip, skip+limit) of the matching contacts
\* in creation order, also after updates and deletes, and two lists with no
\* write between them return the same sequence.
C6_ListInCreationOrder ==
    [][/\ last'.op = "list" =>
            last'.rows = OffsetLimit(Where(CreationOrder(store'), last'.search),
                                     last'.skip, last'.limit)
       /\ (/\ last.op = "list" /\ last'.op = "list"
           /\ last'.skip = last.skip /\ last'.limit = last.limit
           /\ last'.search = last.search)
            => last'.rows = last.rows]_vars

MissingOrEmpty(body) ==
    \E k \in Required :
        k \notin DOMAIN body \/ body[k] = Null \/ body[k] = <<>>

MalformedEmail(body) ==
    /\ "email" \in DOMAIN body
    /\ body["email"] # Null
    /\ ~ValidEmail(body["email"])

\* C7: create with a required field missing or empty, or a malformed email,
\* is a ValidationError that leaves the store as it was; so every stored
\* contact has non-empty first_name, last_name, phone_number and a valid
\* email.
C7_CreateRejectsEmptyFields ==
    [][/\ (last'.op = "create"
           /\ (MissingOrEmpty(last'.body) \/ MalformedEmail(last'.body)))
            => (/\ last'.status = "validation_error"
                /\ store' = store
                /\ heap' = heap)
       /\ \A i \in DOMAIN store' :
             /\ store'[i].first_name # <<>>
             /\ store'[i].last_name # <<>>
             /\ store'[i].phone_number # <<>>
             /\ ValidEmail(store'[i].email)]_vars

\* C8, as stated: get, update and delete of an id no stored contact has
\* signal NotFound and leave the store unchanged.
C8_MissingIdIsNotFound ==
    [][(last'.op \in {"get", "update", "delete"} /\ last'.id \notin DOMAIN store)
         => (/\ last'.status = "not_found"
             /\ store' = store
             /\ heap' = heap)]_vars

\* C8, amended: get and delete of an id no stored contact has signal
\* NotFound, and so does an update of such an id whose changes pass
\* validation; an update whose changes fail validation signals
\* ValidationError instead, whether or not its id is stored.  Each leaves
\* the store unchanged.
C8_MissingIdNotFoundUnlessInvalid ==
    [][/\ (/\ last'.op \in {"get", "update", "delete"}
           /\ last'.id \notin DOMAIN store)
            => /\ last'.status \in {"not_found", "validation_error"}
               /\ last'.status = "not_found" =>
                     (last'.op = "update" => Validates(last'.body))
               /\ last'.status = "validation_error" =>
                     (last'.op = "update" /\ Rejects(last'.body))
               /\ store' = store
               /\ heap' = heap
       /\ (last'.op = "update" /\ ~Validates(last'.body))
            => /\ last'.status = "validation_error"
               /\ store' = store
               /\ heap' = heap
      ]_vars

\* A well-formed update of a deleted id has been answered NotFound.
C8_Witness ==
    /\ last.op = "update"
    /\ last.status = "not_found"
    /\ Validates(last.body)
    /\ last.id \in removed
    /\ DOMAIN store # {}

\* C9: of two updates of one id that both read before either committed, the
\* later commit wins: once it has committed, every field it supplied holds
\* its value.
C9_LastCommitWins ==
    [][\A s \in Sessions :
          (/\ sess[s].pc = "selected_update"
           /\ sess[s].raced
           /\ sess[s].id \in DOMAIN store)
            => /\ sess'[s].pc \in {"selected_update", "committed_update"}
               /\ sess'[s].pc = "committed_update" =>
                     \A k \in DOMAIN sess[s].body :
                         store'[sess[s].id][k] = sess[s].body[k]]_vars

\* C10: a successful update returns the contact stored under its id, with
\* that id, every supplied field at the supplied value, and no other
\* contact modified, added or removed.
C10_UpdateReturnsSuppliedValues ==
    [][/\ (last'.op = "update" /\ last'.status = "ok")
            => /\ last'.row = store'[last'.id]
               /\ last'.row.id = last'.id
               /\ \A k \in DOMAIN last'.body : last'.row[k] = last'.body[k]
       /\ \A s \in Sessions :
             (sess[s].pc = "selected_update" /\ sess'[s].pc # "selected_update")
             => /\ DOMAIN store' = DOMAIN store
                /\ \A j \in DOMAIN store \ {sess[s].id} : store'[j] = store[j]
      ]_vars

====
